---------------------------- MODULE Spec2Model ----------------------------
(***************************************************************************)
(* Model of src/src/docker.rs (shiplift): construction of the Docker       *)
(* entry point and its transport, the one-shot request helpers, the        *)
(* JSON-value stream (stream_post_into) and the event line stream          *)
(* (events).                                                               *)
(*                                                                         *)
(* Text is modelled as a sequence of one-character strings.  The JSON      *)
(* documents are those of a small but genuine subset of JSON: the number   *)
(* made of the digit 1 repeated, arrays of at most one element, and the    *)
(* newline as the only whitespace.  The byte x stands for every byte that  *)
(* starts no JSON value and ends none.                                     *)
(***************************************************************************)
EXTENDS Integers, Sequences, FiniteSets, TLC

\* The largest number of bytes a streaming response body carries.
MaxBytes == 4

\* The number of bytes one poll_read moves out of a chunk (the read buffer
\* of the line framing, 8 * 1024 in the library, scaled down).
ReadCap == 2

\* The largest number of items a consumer takes from one event stream.
MaxPolls == 7

\* The largest number of PEM sections a file of the certificate directory holds.
MaxPemItems == 2

\* The largest number of bytes of a one-shot response body.
MaxBody == 2

\* The largest number of one-shot helper calls in a run.
MaxCalls == 2

\* The largest number of filters given to one EventsOptionsBuilder.
MaxFilters == 3

\* The largest number of filters one call of filter is given.
MaxFilterArgs == 2

NL == "\n"
Alphabet == {"[", "]", "1", NL, "x"}

NoneVal == "None"

VARIABLES
    stream,     \* the stream the consumer holds: "stream_post_into", "events" or "none"
    wire0,      \* the items the chunk stream will yield, as fixed when the request was opened
    wire,       \* the items of the chunk stream not yet pulled
    inner,      \* TryFlatten::next: [some, items], the results of the current chunk not yet emitted
    reader,     \* IntoAsyncRead state: [state, chunk, chunk_start]
    buffer,     \* FramedRead's byte buffer
    emitted,    \* the items the stream has returned to its consumer, in order
    done,       \* the stream has returned None
    pulled,     \* the number of items pulled from the chunk stream
    features,   \* the cargo features of the build: [unix_socket, tls]
    env,        \* the process environment: DOCKER_HOST, DOCKER_CERT_PATH, DOCKER_TLS_VERIFY
    fs,         \* the files ca.pem, cert.pem, key.pem of the certificate directory
    docker,     \* the outcome of the last construction of a Docker
    copy,       \* the last clone taken of the Docker
    requests,   \* the number of requests issued on the transport
    calls,      \* the number of one-shot helper calls made
    last,       \* the last one-shot helper call: [helper, method, resp, result, decoded]
    builder,    \* an EventsOptionsBuilder: params and one Vec per kind of filter
    options,    \* the EventsOptions last built from the builder
    given       \* the filters given to the builder so far, in order

streamVars == <<stream, wire0, wire, inner, reader, buffer, emitted, done, pulled>>
ctorVars == <<features, env, fs, docker, copy>>
shotVars == <<requests, calls, last>>
optsVars == <<builder, options, given>>

vars == <<streamVars, ctorVars, shotVars, optsVars>>

-----------------------------------------------------------------------------
(* Errors (crate::errors::Error) and stream items.                         *)

Fault(code, body) == [kind |-> "Fault", code |-> code, message |-> body]
HyperError == [kind |-> "Hyper"]
SerdeJsonError(code) == [kind |-> "SerdeJsonError", code |-> code]
\* Error::IO(io::Error::new(io::ErrorKind::Other, e))
IOErrorOther(e) == [kind |-> "IO", iokind |-> "Other", source |-> e]
\* Error::IO of an io::Error the framing itself raised
IOErrorEof == [kind |-> "IO", iokind |-> "UnexpectedEof", source |-> [kind |-> NoneVal]]

Ok(v) == [ok |-> TRUE, val |-> v]
Err(e) == [ok |-> FALSE, err |-> e]

\* Option<inner stream> of TryFlatten
NoInner == [some |-> FALSE, items |-> <<>>]
SomeInner(items) == [some |-> TRUE, items |-> items]

\* Poll::Ready(None): the stream has ended
PollEnd == [ok |-> FALSE, err |-> [kind |-> NoneVal]]

-----------------------------------------------------------------------------
(* serde_json on the modelled subset.                                      *)

RECURSIVE SkipWs(_, _)
\* Deserializer::parse_whitespace: the first position >= i that holds no whitespace
SkipWs(s, i) ==
    IF i <= Len(s) /\ s[i] = NL THEN SkipWs(s, i + 1) ELSE i

RECURSIVE ParseNumberEnd(_, _)
\* the position after the run of digits that starts at i
ParseNumberEnd(s, i) ==
    IF i <= Len(s) /\ s[i] = "1" THEN ParseNumberEnd(s, i + 1) ELSE i

RECURSIVE ParseValue(_, _)
\* Deserialize one value starting at position i (whitespace already skipped).
\* The value is kept as its text without whitespace.
ParseValue(s, i) ==
    IF i > Len(s) THEN [ok |-> FALSE, err |-> "EofWhileParsingValue"]
    ELSE IF s[i] = "1" THEN
        LET j == ParseNumberEnd(s, i)
        IN  [ok |-> TRUE, val |-> SubSeq(s, i, j - 1), pos |-> j]
    ELSE IF s[i] = "[" THEN
        LET j == SkipWs(s, i + 1)
        IN  IF j > Len(s) THEN [ok |-> FALSE, err |-> "EofWhileParsingList"]
            ELSE IF s[j] = "]" THEN [ok |-> TRUE, val |-> <<"[", "]">>, pos |-> j + 1]
            ELSE LET e == ParseValue(s, j)
                 IN  IF ~e.ok THEN e
                     ELSE LET k == SkipWs(s, e.pos)
                          IN  IF k > Len(s) THEN [ok |-> FALSE, err |-> "EofWhileParsingList"]
                              ELSE IF s[k] = "]"
                                   THEN [ok |-> TRUE,
                                         val |-> <<"[">> \o e.val \o <<"]">>,
                                         pos |-> k + 1]
                                   ELSE [ok |-> FALSE, err |-> "ExpectedListCommaOrEnd"]
    ELSE [ok |-> FALSE, err |-> "ExpectedSomeValue"]

\* StreamDeserializer::peek_end_of_value: what may follow a value that does
\* not delimit itself (a number)
PeekEndOfValue(s, i) ==
    i > Len(s) \/ s[i] \in {NL, "[", "]"}

RECURSIVE StreamDeserializerCollect(_, _)
\* serde_json::Deserializer::from_slice(s).into_iter().collect::<Vec<_>>()
\* from position i: the values in document order.  A value that fails to
\* deserialize is the last element, since a failed slice reader is cut at
\* the failure; a number followed by a byte that cannot follow it is
\* replaced by an error and the iteration goes on after the number.
StreamDeserializerCollect(s, i) ==
    LET j == SkipWs(s, i)
    IN  IF j > Len(s) THEN <<>>
        ELSE LET r == ParseValue(s, j)
             IN  IF ~r.ok THEN <<Err(SerdeJsonError(r.err))>>
                 ELSE IF s[j] # "[" /\ ~PeekEndOfValue(s, r.pos)
                      THEN <<Err(SerdeJsonError("TrailingCharacters"))>>
                           \o StreamDeserializerCollect(s, r.pos)
                      ELSE <<Ok(r.val)>> \o StreamDeserializerCollect(s, r.pos)

\* serde_json::from_str: one document, then nothing but whitespace
FromStr(s) ==
    LET j == SkipWs(s, 1)
        r == ParseValue(s, j)
    IN  IF ~r.ok THEN Err(SerdeJsonError(r.err))
        ELSE IF SkipWs(s, r.pos) <= Len(s)
             THEN Err(SerdeJsonError("TrailingCharacters"))
             ELSE Ok(r.val)

-----------------------------------------------------------------------------
(* The chunk stream (Transport::stream_chunks).                            *)

\* every text of exactly n bytes
TextsOfLen(n) == [1..n -> Alphabet]

\* every text of at most n bytes
Texts(n) == UNION {TextsOfLen(k) : k \in 0..n}

RECURSIVE Splits(_)
\* every way of cutting s into non-empty chunks
Splits(s) ==
    IF Len(s) = 0 THEN {<<>>}
    ELSE UNION {{<<SubSeq(s, 1, k)>> \o rest : rest \in Splits(SubSeq(s, k + 1, Len(s)))}
                   : k \in 1..Len(s)}

RECURSIVE Concat(_)
Concat(chunks) ==
    IF Len(chunks) = 0 THEN <<>> ELSE Head(chunks) \o Concat(Tail(chunks))

OkChunks(chunks) == [i \in 1..Len(chunks) |-> Ok(chunks[i])]

\* the ways a response body ends: cleanly, or with one error item
ChunkStreamEnds == {<<>>, <<Err(HyperError)>>}

\* what a chunk stream yields for a success status whose body is t: the
\* body's chunks as they arrive, for every way of cutting it, and then the
\* end or a mid-stream failure
ChunkStreams(t) == {OkChunks(c) \o e : c \in Splits(t), e \in ChunkStreamEnds}

\* what a chunk stream yields for any other status: a single API error
FaultStreams == {<<Err(Fault(code, body))>> : code \in {404, 500}, body \in {"not found", ""}}

ReaderPending == [state |-> "PendingChunk", chunk |-> <<>>, chunk_start |-> 0]
ReaderEof == [state |-> "Eof", chunk |-> <<>>, chunk_start |-> 0]

-----------------------------------------------------------------------------
(* stream_post_into: stream_post(..).and_then(collect).try_flatten()        *)

\* faulty variant of ChunkToResults: the chunk is decoded as a single document
ChunkToResultsFirstOnly(chunk) ==
    LET all == StreamDeserializerCollect(chunk, 1)
    IN  IF Len(all) = 0 THEN <<>> ELSE <<Head(all)>>

\* faulty variant of ChunkToResults: a chunk that fails to decode yields its
\* errors only
ChunkToResultsAllOrError(chunk) ==
    LET all == StreamDeserializerCollect(chunk, 1)
    IN  IF \A i \in 1..Len(all) : all[i].ok THEN all
        ELSE SelectSeq(all, LAMBDA r : ~r.ok)

\* the closure given to and_then: the chunk's documents, each error converted by Error::from
ChunkToResults(chunk) == StreamDeserializerCollect(chunk, 1)

RECURSIVE TryFlattenPollFused(_, _, _)
\* faulty variant of TryFlattenPoll: an error item ends the stream, the chunks
\* that remain are dropped
TryFlattenPollFused(nx, outer, n) ==
    IF nx.some THEN
        IF Len(nx.items) > 0
        THEN [item |-> Head(nx.items), inner |-> SomeInner(Tail(nx.items)),
              wire |-> IF Head(nx.items).ok THEN outer ELSE <<>>, pulled |-> n]
        ELSE TryFlattenPollFused(NoInner, outer, n)
    ELSE IF Len(outer) = 0
         THEN [item |-> PollEnd, inner |-> NoInner, wire |-> outer, pulled |-> n]
         ELSE IF Head(outer).ok
              THEN TryFlattenPollFused(SomeInner(StreamDeserializerCollect(Head(outer).val, 1)),
                                       Tail(outer), n + 1)
              ELSE [item |-> Head(outer), inner |-> NoInner,
                    wire |-> <<>>, pulled |-> n + 1]

RECURSIVE TryFlattenPollJoined(_, _, _)
\* faulty variant of TryFlattenPoll: the bytes of a chunk that fails to
\* decode are kept and decoded again together with the next chunk
TryFlattenPollJoined(nx, outer, n) ==
    IF nx.some THEN
        IF Len(nx.items) > 0
        THEN [item |-> Head(nx.items), inner |-> SomeInner(Tail(nx.items)),
              wire |-> outer, pulled |-> n]
        ELSE TryFlattenPollJoined(NoInner, outer, n)
    ELSE IF Len(outer) = 0
         THEN [item |-> PollEnd, inner |-> NoInner, wire |-> outer, pulled |-> n]
         ELSE IF Head(outer).ok
              THEN LET items == StreamDeserializerCollect(Head(outer).val, 1)
                       failed == \E i \in 1..Len(items) : ~items[i].ok
                   IN  IF failed /\ Len(outer) >= 2 /\ outer[2].ok
                       THEN TryFlattenPollJoined(
                                SomeInner(StreamDeserializerCollect(
                                              Head(outer).val \o outer[2].val, 1)),
                                Tail(Tail(outer)), n + 2)
                       ELSE TryFlattenPollJoined(SomeInner(items), Tail(outer), n + 1)
              ELSE [item |-> Head(outer), inner |-> NoInner,
                    wire |-> Tail(outer), pulled |-> n + 1]

RECURSIVE TryFlattenPollPrefetch(_, _, _)
\* faulty variant of TryFlattenPoll: the next chunk is pulled as soon as the
\* last item of the current one is handed out
TryFlattenPollPrefetch(nx, outer, n) ==
    IF nx.some THEN
        IF Len(nx.items) > 1 \/ (Len(nx.items) = 1 /\ (Len(outer) = 0 \/ ~Head(outer).ok))
        THEN [item |-> Head(nx.items), inner |-> SomeInner(Tail(nx.items)),
              wire |-> outer, pulled |-> n]
        ELSE IF Len(nx.items) = 1
        THEN [item |-> Head(nx.items),
              inner |-> SomeInner(StreamDeserializerCollect(Head(outer).val, 1)),
              wire |-> Tail(outer), pulled |-> n + 1]
        ELSE TryFlattenPollPrefetch(NoInner, outer, n)
    ELSE IF Len(outer) = 0
         THEN [item |-> PollEnd, inner |-> NoInner, wire |-> outer, pulled |-> n]
         ELSE IF Head(outer).ok
              THEN TryFlattenPollPrefetch(
                       SomeInner(StreamDeserializerCollect(Head(outer).val, 1)),
                       Tail(outer), n + 1)
              ELSE [item |-> Head(outer), inner |-> NoInner,
                    wire |-> Tail(outer), pulled |-> n + 1]

RECURSIVE TryFlattenPoll(_, _, _)
\* TryFlatten::poll_next on (next, the outer stream, pulled): the item
\* returned (PollEnd for the end) and the state left behind
TryFlattenPoll(nx, outer, n) ==
    IF nx.some THEN
        IF Len(nx.items) > 0
        THEN [item |-> Head(nx.items), inner |-> SomeInner(Tail(nx.items)),
              wire |-> outer, pulled |-> n]
        ELSE TryFlattenPoll(NoInner, outer, n)
    ELSE IF Len(outer) = 0
         THEN [item |-> PollEnd, inner |-> NoInner, wire |-> outer, pulled |-> n]
         ELSE IF Head(outer).ok
              THEN TryFlattenPoll(SomeInner(ChunkToResults(Head(outer).val)),
                                  Tail(outer), n + 1)
              ELSE [item |-> Head(outer), inner |-> NoInner,
                    wire |-> Tail(outer), pulled |-> n + 1]

\* the consumer polls the JSON-value stream once
PollJson ==
    /\ stream = "stream_post_into"
    /\ ~done
    /\ LET r == TryFlattenPoll(inner, wire, pulled)
       IN  /\ inner' = r.inner
           /\ wire' = r.wire
           /\ pulled' = r.pulled
           /\ IF r.item = PollEnd
              THEN done' = TRUE /\ emitted' = emitted
              ELSE done' = FALSE /\ emitted' = Append(emitted, r.item)
    /\ UNCHANGED <<stream, wire0, reader, buffer>>
    /\ UNCHANGED <<ctorVars, shotVars, optsVars>>

-----------------------------------------------------------------------------
(* events: stream_get(..).map_err(io).into_async_read(), framed by          *)
(* LinesCodec, .map_err(Error::IO).and_then(serde_json::from_str)           *)

\* faulty variant of ToIoError: the io::Error keeps the kind of the error only
ToIoErrorLossy(e) == IOErrorOther([kind |-> e.kind])

\* the closure of the first map_err: the chunk stream's error as an io::Error
ToIoError(e) == IOErrorOther(e)

Min(a, b) == IF a < b THEN a ELSE b

RECURSIVE IntoAsyncReadPoll(_, _, _)
\* IntoAsyncRead::poll_read with a read buffer of ReadCap bytes: the bytes
\* read (none at the end of the body) or the error, and the state left behind
IntoAsyncReadPoll(rd, outer, n) ==
    IF rd.state = "Ready" THEN
        LET len == Min(ReadCap, Len(rd.chunk) - rd.chunk_start)
            start == rd.chunk_start + len
        IN  [res |-> Ok(SubSeq(rd.chunk, rd.chunk_start + 1, start)),
             reader |-> IF Len(rd.chunk) = start THEN ReaderPending
                        ELSE [rd EXCEPT !.chunk_start = start],
             wire |-> outer, pulled |-> n]
    ELSE IF rd.state = "PendingChunk" THEN
        IF Len(outer) = 0
        THEN [res |-> Ok(<<>>), reader |-> ReaderEof, wire |-> outer, pulled |-> n]
        ELSE IF Head(outer).ok
             THEN IntoAsyncReadPoll(
                      IF Len(Head(outer).val) > 0
                      THEN [state |-> "Ready", chunk |-> Head(outer).val, chunk_start |-> 0]
                      ELSE rd,
                      Tail(outer), n + 1)
             ELSE [res |-> Err(ToIoError(Head(outer).err)), reader |-> ReaderEof,
                   wire |-> Tail(outer), pulled |-> n + 1]
    ELSE [res |-> Ok(<<>>), reader |-> rd, wire |-> outer, pulled |-> n]

RECURSIVE IndexOfNL(_, _)
\* memchr(b'\n', ..) from position i: the position of the first newline, or 0
IndexOfNL(s, i) ==
    IF i > Len(s) THEN 0 ELSE IF s[i] = NL THEN i ELSE IndexOfNL(s, i + 1)

\* LinesCodec::decode: the first line of the buffer, its newline included,
\* split off the buffer; nothing when the buffer holds no newline
LinesDecode(buf) ==
    LET pos == IndexOfNL(buf, 1)
    IN  IF pos = 0 THEN [some |-> FALSE, line |-> <<>>, rest |-> buf]
        ELSE [some |-> TRUE, line |-> SubSeq(buf, 1, pos),
              rest |-> SubSeq(buf, pos + 1, Len(buf))]

\* faulty variant of BufferExtend: every read starts a fresh buffer
BufferReplace(buf, bytes) == bytes

\* FramedRead keeps the bytes read so far that no line has taken yet
BufferExtend(buf, bytes) == buf \o bytes

RECURSIVE FramedReadLoop(_, _, _, _)
\* the read loop of FramedRead::poll_next
FramedReadLoop(buf, rd, outer, n) ==
    LET r == IntoAsyncReadPoll(rd, outer, n)
    IN  IF ~r.res.ok
        THEN [item |-> r.res, buffer |-> buf,
              reader |-> r.reader, wire |-> r.wire, pulled |-> r.pulled]
        ELSE LET b == BufferExtend(buf, r.res.val)
                 ended == Len(r.res.val) = 0
                 d == LinesDecode(b)
             IN  IF d.some
                 THEN [item |-> Ok(d.line), buffer |-> d.rest,
                       reader |-> r.reader, wire |-> r.wire, pulled |-> r.pulled]
                 ELSE IF ended
                      THEN [item |-> IF Len(b) = 0 THEN PollEnd ELSE Err(IOErrorEof),
                            buffer |-> b,
                            reader |-> r.reader, wire |-> r.wire, pulled |-> r.pulled]
                      ELSE FramedReadLoop(b, r.reader, r.wire, r.pulled)

\* FramedRead::poll_next: a line already buffered is returned without a read
FramedReadPoll(buf, rd, outer, n) ==
    LET d == LinesDecode(buf)
    IN  IF d.some
        THEN [item |-> Ok(d.line), buffer |-> d.rest,
              reader |-> rd, wire |-> outer, pulled |-> n]
        ELSE FramedReadLoop(buf, rd, outer, n)

\* .map_err(Error::IO).and_then(|s| serde_json::from_str(&s).map_err(Error::SerdeJsonError))
EventsItem(item) ==
    IF item.ok THEN FromStr(item.val) ELSE item

\* faulty variant of PollEvents: an error item ends the stream
PollEventsFused ==
    /\ stream = "events"
    /\ ~done
    /\ Len(emitted) < MaxPolls
    /\ LET r == FramedReadPoll(buffer, reader, wire, pulled)
       IN  /\ buffer' = r.buffer
           /\ reader' = r.reader
           /\ wire' = r.wire
           /\ pulled' = r.pulled
           /\ IF r.item = PollEnd
              THEN done' = TRUE /\ emitted' = emitted
              ELSE /\ emitted' = Append(emitted, EventsItem(r.item))
                   /\ done' = ~EventsItem(r.item).ok
    /\ UNCHANGED <<stream, wire0, inner>>
    /\ UNCHANGED <<ctorVars, shotVars, optsVars>>

\* the consumer polls the event stream once
PollEvents ==
    /\ stream = "events"
    /\ ~done
    /\ Len(emitted) < MaxPolls
    /\ LET r == FramedReadPoll(buffer, reader, wire, pulled)
       IN  /\ buffer' = r.buffer
           /\ reader' = r.reader
           /\ wire' = r.wire
           /\ pulled' = r.pulled
           /\ IF r.item = PollEnd
              THEN done' = TRUE /\ emitted' = emitted
              ELSE done' = FALSE /\ emitted' = Append(emitted, EventsItem(r.item))
    /\ UNCHANGED <<stream, wire0, inner>>
    /\ UNCHANGED <<ctorVars, shotVars, optsVars>>

-----------------------------------------------------------------------------
(* Construction: Docker::new, Docker::unix, Docker::host and the TLS       *)
(* connector.  An address is a sequence of tokens (unix, ://, localhost,   *)
(* :, 8000, /x.sock); a file of the certificate directory is the sequence  *)
(* of the kinds of its PEM sections.                                       *)

Unset == <<>>

Schemes == {"unix", "http", "https"}
Hosts == {"localhost", "example"}
Ports == {"8000", "2376"}
Paths == {"/x.sock", "/docker.sock", "/var/run/docker.sock"}

\* the addresses given to the constructors
Targets ==
    { <<"unix", "://", "/x.sock">>,
      <<"unix", "://", "/docker.sock">>,
      <<"unix", "://", "localhost", "/x.sock">>,
      <<"http", "://", "localhost", ":", "8000">>,
      <<"http", "://", "localhost">>,
      <<"https", "://", "example", ":", "2376">>,
      <<"https", "://", "example">>,
      <<"localhost", ":", "8000">>,
      <<"/x.sock">>,
      <<"not a url">> }

DefaultHost == <<"unix", "://", "/var/run/docker.sock">>

CertDir == <<"/certs">>

PemKinds == {"RSAKey", "PKCS8Key", "ECKey", "X509Certificate"}
PrivateKeyKinds == {"RSAKey", "PKCS8Key", "ECKey"}

MissingFile == [exists |-> FALSE, enc |-> "pem", items |-> <<>>]
PemFile(items) == [exists |-> TRUE, enc |-> "pem", items |-> items]
DerFile(items) == [exists |-> TRUE, enc |-> "der", items |-> items]

PemTexts == UNION {[1..k -> PemKinds] : k \in 0..MaxPemItems}
CertBundles == {[i \in 1..k |-> "X509Certificate"] : k \in 1..MaxPemItems}

KeyFiles == {MissingFile} \cup {PemFile(t) : t \in PemTexts}
CertFiles == {MissingFile, PemFile(<<"X509Certificate">>), PemFile(<<>>)}
CaFiles == {MissingFile, DerFile(<<"X509Certificate">>)} \cup {PemFile(t) : t \in CertBundles}

\* http::Uri as parsed from an address: the scheme needs an authority after
\* it; an address without a scheme is an authority or a path alone
UriNone == "None"
UriError == [ok |-> FALSE, scheme |-> UriNone, host |-> UriNone, port |-> UriNone, path |-> ""]
Uri(scheme, host, port, path) ==
    [ok |-> TRUE, scheme |-> scheme, host |-> host, port |-> port, path |-> path]

\* str::parse::<Uri>
ParseUri(t) ==
    IF Len(t) >= 2 /\ t[1] \in Schemes /\ t[2] = "://" THEN
        LET rest == SubSeq(t, 3, Len(t))
        IN  IF Len(rest) = 0 \/ rest[1] \notin Hosts THEN UriError
            ELSE IF Len(rest) = 1 THEN Uri(t[1], rest[1], UriNone, "/")
            ELSE IF Len(rest) = 2 /\ rest[2] \in Paths THEN Uri(t[1], rest[1], UriNone, rest[2])
            ELSE IF Len(rest) = 3 /\ rest[2] = ":" /\ rest[3] \in Ports
                 THEN Uri(t[1], rest[1], rest[3], "/")
            ELSE IF Len(rest) = 4 /\ rest[2] = ":" /\ rest[3] \in Ports /\ rest[4] \in Paths
                 THEN Uri(t[1], rest[1], rest[3], rest[4])
            ELSE UriError
    ELSE IF Len(t) = 1 /\ t[1] \in Paths THEN Uri(UriNone, UriNone, UriNone, t[1])
    ELSE IF Len(t) = 1 /\ t[1] \in Hosts THEN Uri(UriNone, t[1], UriNone, "")
    ELSE IF Len(t) = 3 /\ t[1] \in Hosts /\ t[2] = ":" /\ t[3] \in Ports
         THEN Uri(UriNone, t[1], t[3], "")
    ELSE UriError

\* the TLS client configuration of an encrypted transport
NoTls == [present |-> FALSE, key |-> UriNone, key_index |-> 0, chain |-> 0, roots |-> <<>>]
TlsConfig(key, index, chain, roots) ==
    [present |-> TRUE, key |-> key, key_index |-> index, chain |-> chain, roots |-> roots]

\* outcomes of a construction: a Docker with its transport, or a panic
NoDocker == [kind |-> "none", msg |-> "", via |-> "", target |-> <<>>, variant |-> "",
             addr |-> <<>>, pool_max_idle_per_host |-> "", tls |-> NoTls,
             cert_path_set |-> FALSE, tls_verify_set |-> FALSE]
Panic(msg) == [NoDocker EXCEPT !.kind = "panic", !.msg = msg]
Transport(variant, addr, pool, tls) ==
    [NoDocker EXCEPT !.kind = "ok", !.variant = variant, !.addr = addr,
                     !.pool_max_idle_per_host = pool, !.tls = tls]

\* rustls_pemfile::read_all, keeping the certificates (read_certs): the
\* number of certificates, or an error when the file cannot be opened
ReadCerts(f) ==
    IF ~f.exists THEN [ok |-> FALSE, n |-> 0]
    ELSE [ok |-> TRUE,
          n |-> IF f.enc = "pem" THEN Len(SelectSeq(f.items, LAMBDA k : k = "X509Certificate"))
                ELSE 0]

\* read_key: rustls_pemfile::read_one gives the first PEM section only
ReadKey(f) ==
    IF ~f.exists THEN [r |-> "err", key |-> UriNone, index |-> 0]
    ELSE IF f.enc = "pem" /\ Len(f.items) > 0 /\ f.items[1] \in {"RSAKey", "PKCS8Key"}
         THEN [r |-> "ok", key |-> f.items[1], index |-> 1]
         ELSE [r |-> "panic", key |-> UriNone, index |-> 0]

\* RootCertStore::add_parsable_certificates(&[bytes of ca.pem]): the whole
\* file is taken as one DER certificate and is dropped when it is not one
RustlsRoots(f) ==
    IF f.enc = "der" /\ Len(f.items) = 1 /\ f.items[1] = "X509Certificate" THEN <<1>> ELSE <<>>

\* get_https_connector, feature rust-tls
RustTlsConnector(dir, e) ==
    IF e.DOCKER_TLS_VERIFY # Unset /\ ~dir.ca.exists
    THEN [ok |-> FALSE, msg |-> "unwrap on Err: ca.pem", tls |-> NoTls]
    ELSE LET roots == IF e.DOCKER_TLS_VERIFY # Unset THEN RustlsRoots(dir.ca) ELSE <<>>
             certs == ReadCerts(dir.cert)
             key == ReadKey(dir.key)
         IN  IF ~certs.ok THEN [ok |-> FALSE, msg |-> "unwrap on Err: cert.pem", tls |-> NoTls]
             ELSE IF key.r = "err"
                  THEN [ok |-> FALSE, msg |-> "unwrap on Err: key.pem", tls |-> NoTls]
             ELSE IF key.r = "panic"
                  THEN [ok |-> FALSE, msg |-> "Not a private key", tls |-> NoTls]
             ELSE [ok |-> TRUE, msg |-> "",
                   tls |-> TlsConfig(key.key, key.index, certs.n, roots)]

\* get_https_connector, feature native-tls: Certificate::from_der or
\* from_pem takes one certificate; Identity::from_pkcs8 takes the first
\* certificate of cert.pem and a key file that starts with a PKCS8 key
NativeTlsConnector(dir, e) ==
    IF e.DOCKER_TLS_VERIFY # Unset /\ ~dir.ca.exists
    THEN [ok |-> FALSE, msg |-> "unwrap on Err: ca.pem", tls |-> NoTls]
    ELSE IF e.DOCKER_TLS_VERIFY # Unset
            /\ ~(Len(dir.ca.items) > 0 /\ dir.ca.items[1] = "X509Certificate")
    THEN [ok |-> FALSE, msg |-> "unwrap on Err: certificate", tls |-> NoTls]
    ELSE IF ~dir.cert.exists THEN [ok |-> FALSE, msg |-> "unwrap on Err: cert.pem", tls |-> NoTls]
    ELSE IF ~dir.key.exists THEN [ok |-> FALSE, msg |-> "unwrap on Err: key.pem", tls |-> NoTls]
    ELSE IF ~(Len(dir.key.items) > 0 /\ dir.key.items[1] = "PKCS8Key")
    THEN [ok |-> FALSE, msg |-> "unwrap on Err: not PKCS8", tls |-> NoTls]
    ELSE IF ReadCerts(dir.cert).n = 0
    THEN [ok |-> FALSE, msg |-> "unwrap on Err: empty chain", tls |-> NoTls]
    ELSE [ok |-> TRUE, msg |-> "",
          tls |-> TlsConfig("PKCS8Key", 1, 1,
                            IF e.DOCKER_TLS_VERIFY # Unset THEN <<1>> ELSE <<>>)]

\* the files under the directory DOCKER_CERT_PATH names
DirOf(path, files) ==
    IF path = CertDir THEN files
    ELSE [ca |-> MissingFile, cert |-> MissingFile, key |-> MissingFile]

GetHttpsConnector(path, files, e, feat) ==
    IF feat.tls = "rust-tls" THEN RustTlsConnector(DirOf(path, files), e)
    ELSE NativeTlsConnector(DirOf(path, files), e)

\* get_docker_for_tcp_http
GetDockerForTcpHttp(tcp_host_str) ==
    Transport("Tcp", tcp_host_str, "default", NoTls)

\* get_docker_for_tcp_https
GetDockerForTcpHttps(tcp_host_str, path, files, e, feat) ==
    LET c == GetHttpsConnector(path, files, e, feat)
    IN  IF c.ok THEN Transport("EncryptedTcp", tcp_host_str, "default", c.tls)
        ELSE Panic(c.msg)

\* get_docker_for_tcp: DOCKER_CERT_PATH is read in a TLS build only
GetDockerForTcp(tcp_host_str, files, e, feat) ==
    IF feat.tls # "none" /\ e.DOCKER_CERT_PATH # Unset
    THEN GetDockerForTcpHttps(tcp_host_str, e.DOCKER_CERT_PATH, files, e, feat)
    ELSE GetDockerForTcpHttp(tcp_host_str)

\* Docker::unix
DockerUnixOf(socket_path) ==
    Transport("Unix", <<socket_path>>, "0", NoTls)

\* faulty variant of TcpHostStr: the default port follows the scheme
TcpHostStrSchemePort(uri) ==
    <<uri.scheme, "://", uri.host, ":",
      IF uri.port # UriNone THEN uri.port
      ELSE IF uri.scheme = "https" THEN "443" ELSE "80">>

\* format!("{}://{}:{}", scheme, host, port_u16().unwrap_or(80))
TcpHostStr(uri) ==
    <<uri.scheme, "://", uri.host, ":", IF uri.port = UriNone THEN "80" ELSE uri.port>>

\* Docker::host: the host string is formatted before the scheme is matched
DockerHostOf(uri, files, e, feat) ==
    IF uri.scheme = UriNone THEN Panic("unwrap on None: scheme")
    ELSE IF uri.host = UriNone THEN Panic("unwrap on None: host")
    ELSE LET tcp_host_str == TcpHostStr(uri)
         IN  IF uri.scheme = "unix"
             THEN IF feat.unix_socket
                  THEN Transport("Unix", <<uri.path>>, "default", NoTls)
                  ELSE Panic("Unix socket support is disabled")
             ELSE GetDockerForTcp(tcp_host_str, files, e, feat)

\* faulty variant of DockerNewOf: an address that does not parse falls
\* back on the default socket
DockerNewOfFallback(files, e, feat) ==
    LET text == IF e.DOCKER_HOST # Unset THEN e.DOCKER_HOST ELSE DefaultHost
        uri == ParseUri(text)
    IN  IF ~uri.ok THEN DockerUnixOf("/var/run/docker.sock")
        ELSE DockerHostOf(uri, files, e, feat)

\* Docker::new
DockerNewOf(files, e, feat) ==
    LET text == IF e.DOCKER_HOST # Unset THEN e.DOCKER_HOST ELSE DefaultHost
        uri == ParseUri(text)
    IN  IF ~uri.ok THEN Panic("invalid url")
        ELSE DockerHostOf(uri, files, e, feat)

\* what a construction leaves behind: its outcome, the address it was given
\* and the environment signals at that time
Built(outcome, via, target) ==
    [outcome EXCEPT !.via = via, !.target = target,
                    !.cert_path_set = (env.DOCKER_CERT_PATH # Unset),
                    !.tls_verify_set = (env.DOCKER_TLS_VERIFY # Unset)]

DockerNew ==
    /\ docker' = Built(DockerNewOf(fs, env, features), "new",
                       IF env.DOCKER_HOST # Unset THEN env.DOCKER_HOST ELSE DefaultHost)
    /\ UNCHANGED <<features, env, fs, copy>>
    /\ UNCHANGED <<streamVars, shotVars, optsVars>>

\* Docker::host is given a Uri, that is, an address that parsed
DockerHost ==
    \E t \in Targets \cup {DefaultHost} :
        /\ ParseUri(t).ok
        /\ docker' = Built(DockerHostOf(ParseUri(t), fs, env, features), "host", t)
        /\ UNCHANGED <<features, env, fs, copy>>
        /\ UNCHANGED <<streamVars, shotVars, optsVars>>

DockerUnix ==
    \E socket_path \in Paths :
        /\ features.unix_socket
        /\ docker' = Built(DockerUnixOf(socket_path), "unix", <<socket_path>>)
        /\ UNCHANGED <<features, env, fs, copy>>
        /\ UNCHANGED <<streamVars, shotVars, optsVars>>

\* std::env::set_var / remove_var
SetVar ==
    \/ \E t \in Targets \cup {Unset} :
          env' = [env EXCEPT !.DOCKER_HOST = t]
    \/ \E p \in {CertDir, Unset} :
          env' = [env EXCEPT !.DOCKER_CERT_PATH = p]
    \/ \E v \in {<<"1">>, Unset} :
          env' = [env EXCEPT !.DOCKER_TLS_VERIFY = v]

SetEnv ==
    /\ SetVar
    /\ env' # env
    /\ UNCHANGED <<features, fs, docker, copy>>
    /\ UNCHANGED <<streamVars, shotVars, optsVars>>

\* #[derive(Clone)] on Docker: the clone holds a clone of the transport
CloneOf(d) == d

\* docker.clone()
Clone ==
    /\ docker.kind = "ok"
    /\ copy' = CloneOf(docker)
    /\ UNCHANGED <<features, env, fs, docker>>
    /\ UNCHANGED <<streamVars, shotVars, optsVars>>

\* get_docker_for_tcp_https called with the directory DOCKER_CERT_PATH names
LoadTls ==
    LET host == <<"https", "://", "example", ":", "2376">>
    IN  /\ env.DOCKER_CERT_PATH # Unset
        /\ features.tls # "none"
        /\ docker = NoDocker
        /\ docker' = Built(GetDockerForTcpHttps(host, env.DOCKER_CERT_PATH, fs, env, features),
                           "tcp_https", host)
        /\ UNCHANGED <<features, env, fs, copy>>
        /\ UNCHANGED <<streamVars, shotVars, optsVars>>

-----------------------------------------------------------------------------
(* The one-shot helpers: get, get_json, post, put, post_json,              *)
(* post_json_headers, delete, delete_json.                                 *)

\* what the daemon and the network answer to one request
Responses ==
    {[kind |-> "success", status |-> 200, body |-> b, message |-> ""] : b \in Texts(MaxBody)}
    \cup {[kind |-> "status", status |-> c, body |-> <<>>, message |-> m] :
             c \in {404, 500}, m \in {"not found", ""}}
    \cup {[kind |-> "network", status |-> 0, body |-> <<>>, message |-> ""]}

\* Transport::request: the body of a success, the API error of any other
\* status, the transport error of a network failure
TransportRequest(resp) ==
    IF resp.kind = "success" THEN Ok(resp.body)
    ELSE IF resp.kind = "status" THEN Err(Fault(resp.status, resp.message))
    ELSE Err(HyperError)

\* faulty variant of RequestText: a failed request is issued a second time
RequestTextRetry(resp) ==
    [result |-> TransportRequest(resp), decoded |-> FALSE,
     requests |-> IF TransportRequest(resp).ok THEN 1 ELSE 2]

\* self.transport.request(..).await: get, post, put, delete
RequestText(resp) ==
    [result |-> TransportRequest(resp), decoded |-> FALSE, requests |-> 1]

\* faulty variant of RequestThenDecode: the body of a failed request is decoded too
RequestThenDecodeAlways(resp) ==
    LET raw == TransportRequest(resp)
    IN  [result |-> IF raw.ok THEN FromStr(raw.val) ELSE FromStr(<<>>),
         decoded |-> TRUE, requests |-> 1]

\* self.transport.request(..).await? followed by serde_json::from_str(..)?:
\* get_json, post_json, post_json_headers, delete_json
RequestThenDecode(resp) ==
    LET raw == TransportRequest(resp)
    IN  IF ~raw.ok THEN [result |-> raw, decoded |-> FALSE, requests |-> 1]
        ELSE [result |-> FromStr(raw.val), decoded |-> TRUE, requests |-> 1]

NoCall == [helper |-> "", method |-> "",
           resp |-> [kind |-> "", status |-> 0, body |-> <<>>, message |-> ""],
           result |-> Ok(<<>>), decoded |-> FALSE]

\* faulty variant of Call: the helper builds its transport again from the
\* environment of the moment
CallReadingEnv(helper, method, resp, out) ==
    /\ calls < MaxCalls
    /\ calls' = calls + 1
    /\ requests' = requests + out.requests
    /\ last' = [helper |-> helper, method |-> method, resp |-> resp,
                result |-> out.result, decoded |-> out.decoded]
    /\ docker' = Built(DockerNewOf(fs, env, features), docker.via, docker.target)
    /\ UNCHANGED <<features, env, fs, copy>>
    /\ UNCHANGED <<streamVars, optsVars>>

\* a one-shot helper called on &self: one request on the transport
Call(helper, method, resp, out) ==
    /\ calls < MaxCalls
    /\ calls' = calls + 1
    /\ requests' = requests + out.requests
    /\ last' = [helper |-> helper, method |-> method, resp |-> resp,
                result |-> out.result, decoded |-> out.decoded]
    /\ UNCHANGED <<streamVars, ctorVars, optsVars>>

Get == \E resp \in Responses : Call("get", "GET", resp, RequestText(resp))
GetJson == \E resp \in Responses : Call("get_json", "GET", resp, RequestThenDecode(resp))
Post == \E resp \in Responses : Call("post", "POST", resp, RequestText(resp))
Put == \E resp \in Responses : Call("put", "PUT", resp, RequestText(resp))
PostJson == \E resp \in Responses : Call("post_json", "POST", resp, RequestThenDecode(resp))
PostJsonHeaders ==
    \E resp \in Responses : Call("post_json_headers", "POST", resp, RequestThenDecode(resp))
Delete == \E resp \in Responses : Call("delete", "DELETE", resp, RequestText(resp))
DeleteJson == \E resp \in Responses : Call("delete_json", "DELETE", resp, RequestThenDecode(resp))

-----------------------------------------------------------------------------
(* EventsOptionsBuilder: since, until, filter, build.                      *)

\* event_filter_type_to_string
EventFilterTypeToString(filter) ==
    CASE filter = "Container" -> "container"
      [] filter = "Image" -> "image"
      [] filter = "Volume" -> "volume"
      [] filter = "Network" -> "network"
      [] filter = "Daemon" -> "daemon"

\* enum EventFilter: the variant and what it carries
EventFilter(variant, n) == [variant |-> variant, n |-> n]

\* the filters given to the builder
EventFilters ==
    {EventFilter(v, n) : v \in {"Container", "Image"}, n \in {"a", "b"}}
    \cup {EventFilter("Label", "a"), EventFilter("Type", "Container")}

\* the arguments of one call of filter
FilterArgs == UNION {[1..k -> EventFilters] : k \in 0..MaxFilterArgs}

Timestamps == {1, 2}

\* u64::to_string on the timestamps
TimestampToString(ts) == CASE ts = 1 -> "1" [] ts = 2 -> "2"

\* the Vec of the builder a filter is pushed on, the key it is inserted
\* under and the string pushed
FilterVec(f) ==
    CASE f.variant = "Container" -> "containers"
      [] f.variant = "Event" -> "events"
      [] f.variant = "Image" -> "images"
      [] f.variant = "Label" -> "labels"
      [] f.variant = "Volume" -> "volumes"
      [] f.variant = "Network" -> "networks"
      [] f.variant = "Daemon" -> "daemons"
      [] f.variant = "Type" -> "types"
FilterKey(f) ==
    CASE f.variant = "Container" -> "container"
      [] f.variant = "Event" -> "event"
      [] f.variant = "Image" -> "image"
      [] f.variant = "Label" -> "label"
      [] f.variant = "Volume" -> "volume"
      [] f.variant = "Network" -> "network"
      [] f.variant = "Daemon" -> "daemon"
      [] f.variant = "Type" -> "type"
FilterString(f) ==
    IF f.variant = "Type" THEN EventFilterTypeToString(f.n) ELSE f.n

\* HashMap::new() and HashMap::insert
EmptyMap == [k \in {} |-> <<>>]
MapInsert(map, key, value) ==
    [k \in DOMAIN map \cup {key} |-> IF k = key THEN value ELSE map[k]]

\* serde_json::to_string of a map of string lists: a JSON object with one
\* member per key, in no particular order
ToJsonObject(map) == [json |-> "object", members |-> map]

\* EventsOptionsBuilder::default()
DefaultBuilder ==
    [params |-> EmptyMap, events |-> <<>>, containers |-> <<>>, images |-> <<>>,
     labels |-> <<>>, volumes |-> <<>>, networks |-> <<>>, daemons |-> <<>>, types |-> <<>>]

NoOptions == [built |-> FALSE, params |-> EmptyMap, given |-> <<>>]

\* let mut params = HashMap::new(), at the start of every call of filter
FilterNewParams(b) == EmptyMap

RECURSIVE FilterLoop(_, _, _)
\* for f in filters: push on the Vec of the kind, insert the whole Vec in
\* the map of this call
FilterLoop(b, params, filters) ==
    IF Len(filters) = 0 THEN [builder |-> b, params |-> params]
    ELSE LET f == Head(filters)
             pushed == [b EXCEPT ![FilterVec(f)] = Append(@, FilterString(f))]
         IN  FilterLoop(pushed,
                        MapInsert(params, FilterKey(f), pushed[FilterVec(f)]),
                        Tail(filters))

\* EventsOptionsBuilder::filter
FilterOf(b, filters) ==
    LET r == FilterLoop(b, FilterNewParams(b), filters)
    IN  [r.builder EXCEPT
            !.params = MapInsert(r.builder.params, "filters", ToJsonObject(r.params))]

Since ==
    \E ts \in Timestamps :
        /\ builder' = [builder EXCEPT !.params = MapInsert(@, "since", TimestampToString(ts))]
        /\ builder' # builder
        /\ UNCHANGED <<options, given>>
        /\ UNCHANGED <<streamVars, ctorVars, shotVars>>

Until ==
    \E ts \in Timestamps :
        /\ builder' = [builder EXCEPT !.params = MapInsert(@, "until", TimestampToString(ts))]
        /\ builder' # builder
        /\ UNCHANGED <<options, given>>
        /\ UNCHANGED <<streamVars, ctorVars, shotVars>>

Filter ==
    \E filters \in FilterArgs :
        /\ Len(given) + Len(filters) <= MaxFilters
        /\ builder' = FilterOf(builder, filters)
        /\ given' = given \o filters
        /\ UNCHANGED options
        /\ UNCHANGED <<streamVars, ctorVars, shotVars>>

\* EventsOptionsBuilder::build: the options hold a clone of params
Build ==
    /\ options' = [built |-> TRUE, params |-> builder.params, given |-> given]
    /\ UNCHANGED <<builder, given>>
    /\ UNCHANGED <<streamVars, ctorVars, shotVars>>

-----------------------------------------------------------------------------
(* Specifications.                                                         *)

OptsIdle ==
    /\ builder = DefaultBuilder
    /\ options = NoOptions
    /\ given = <<>>

StreamIdle ==
    /\ stream = "none"
    /\ wire0 = <<>>
    /\ wire = <<>>
    /\ inner = NoInner
    /\ reader = ReaderPending
    /\ buffer = <<>>
    /\ emitted = <<>>
    /\ done = FALSE
    /\ pulled = 0

EnvUnset == [DOCKER_HOST |-> Unset, DOCKER_CERT_PATH |-> Unset, DOCKER_TLS_VERIFY |-> Unset]
GoodDir == [ca |-> PemFile(<<"X509Certificate">>), cert |-> PemFile(<<"X509Certificate">>),
            key |-> PemFile(<<"PKCS8Key">>)]
DefaultBuild == [unix_socket |-> TRUE, tls |-> "rust-tls"]

CtorIdle ==
    /\ features = DefaultBuild
    /\ env = EnvUnset
    /\ fs = GoodDir
    /\ docker = NoDocker
    /\ copy = NoDocker

ShotIdle ==
    /\ requests = 0
    /\ calls = 0
    /\ last = NoCall

StreamInit ==
    /\ \/ \E t \in Texts(MaxBytes) : wire0 \in ChunkStreams(t)
       \/ wire0 \in FaultStreams
    /\ wire = wire0
    /\ inner = NoInner
    /\ reader = ReaderPending
    /\ buffer = <<>>
    /\ emitted = <<>>
    /\ done = FALSE
    /\ pulled = 0
    /\ CtorIdle
    /\ ShotIdle
    /\ OptsIdle

JsonInit == stream = "stream_post_into" /\ StreamInit

JsonNext == PollJson

\* a consumer of the JSON-value stream of one request
SpecJsonStream == JsonInit /\ [][JsonNext]_vars

EventsInit == stream = "events" /\ StreamInit

EventsNext == PollEvents

\* a consumer of the event stream of one request
SpecEvents == EventsInit /\ [][EventsNext]_vars

StreamsInit == stream \in {"stream_post_into", "events"} /\ StreamInit

StreamsNext == PollJson \/ PollEvents

\* a consumer of either stream
SpecStreams == StreamsInit /\ [][StreamsNext]_vars

Builds ==
    {[unix_socket |-> u, tls |-> t] : u \in BOOLEAN, t \in {"rust-tls", "native-tls", "none"}}

ConstructInit ==
    /\ features \in Builds
    /\ env = EnvUnset
    /\ fs \in {GoodDir, [GoodDir EXCEPT !.key = MissingFile]}
    /\ docker = NoDocker
    /\ copy = NoDocker
    /\ StreamIdle
    /\ ShotIdle
    /\ OptsIdle

ConstructNext == DockerNew \/ DockerHost \/ DockerUnix \/ SetEnv

\* a process that sets its environment and constructs Docker instances
SpecConstruct == ConstructInit /\ [][ConstructNext]_vars

TlsInit ==
    /\ features \in {b \in Builds : b.unix_socket /\ b.tls # "none"}
    /\ env \in {[EnvUnset EXCEPT !.DOCKER_CERT_PATH = CertDir, !.DOCKER_TLS_VERIFY = v] :
                   v \in {Unset, <<"1">>}}
    /\ fs \in [ca : CaFiles, cert : CertFiles, key : KeyFiles]
    /\ docker = NoDocker
    /\ copy = NoDocker
    /\ StreamIdle
    /\ ShotIdle
    /\ OptsIdle

TlsNext == LoadTls

\* the TLS connector applied to every certificate directory
SpecTls == TlsInit /\ [][TlsNext]_vars

OneShotInit ==
    /\ ShotIdle
    /\ OptsIdle
    /\ StreamIdle
    /\ CtorIdle

OneShotNext ==
    Get \/ GetJson \/ Post \/ Put \/ PostJson \/ PostJsonHeaders \/ Delete \/ DeleteJson

\* a caller of the one-shot helpers
SpecOneShot == OneShotInit /\ [][OneShotNext]_vars

LifeInit ==
    /\ features = DefaultBuild
    /\ env \in {EnvUnset,
                [EnvUnset EXCEPT !.DOCKER_HOST = <<"http", "://", "localhost", ":", "8000">>,
                                 !.DOCKER_CERT_PATH = CertDir]}
    /\ fs = GoodDir
    /\ docker = NoDocker
    /\ copy = NoDocker
    /\ StreamIdle
    /\ ShotIdle
    /\ OptsIdle

LifeNext ==
    \/ docker = NoDocker /\ (DockerNew \/ DockerHost \/ DockerUnix)
    \/ docker.kind = "ok" /\ copy = NoDocker /\ (SetEnv \/ Clone)
    \/ copy # NoDocker /\ calls = 0 /\ (Get \/ PostJson)

\* one Docker from its construction on: the environment changes, the
\* instance is cloned and used
SpecLife == LifeInit /\ [][LifeNext]_vars

OptionsInit ==
    /\ OptsIdle
    /\ ShotIdle
    /\ StreamIdle
    /\ CtorIdle

OptionsNext == Since \/ Until \/ Filter \/ Build

\* a caller of one EventsOptionsBuilder
SpecOptions == OptionsInit /\ [][OptionsNext]_vars

-----------------------------------------------------------------------------
(* What the streams are expected to deliver, stated from the grammar and   *)
(* from the whole body, without the decoders above.                        *)

IsPrefix(a, b) == Len(a) <= Len(b) /\ a = SubSeq(b, 1, Len(a))

Numbers(n) == {[i \in 1..k |-> "1"] : k \in 1..n}
WsRuns(n) == {[i \in 1..k |-> NL] : k \in 0..n}

RECURSIVE DocTexts(_)
\* the texts of at most n bytes that are one document, with no whitespace around it
DocTexts(n) ==
    IF n <= 0 THEN {}
    ELSE Numbers(n)
         \cup {<<"[">> \o w \o <<"]">> : w \in WsRuns(n - 2)}
         \cup {t \in {<<"[">> \o w[1] \o d \o w[2] \o <<"]">> :
                         w \in WsRuns(n - 3) \X WsRuns(n - 3), d \in DocTexts(n - 2)} :
                  Len(t) <= n}

JsonDocs == DocTexts(MaxBytes)

\* a document's value: its text without whitespace
Canon(t) == SelectSeq(t, LAMBDA c : c # NL)

IsWs(t) == Len(t) > 0 /\ \A i \in 1..Len(t) : t[i] = NL
IsNumber(t) == Len(t) > 0 /\ \A i \in 1..Len(t) : t[i] = "1"

\* the ways of reading a chunk as complete documents written back to back,
\* whitespace allowed between them (two numbers need it: without it they are
\* one number)
DocDecomps(c) ==
    {p \in Splits(c) :
        /\ \A i \in 1..Len(p) : p[i] \in JsonDocs \/ IsWs(p[i])
        /\ \E i \in 1..Len(p) : p[i] \in JsonDocs
        /\ \A i \in 1..(Len(p) - 1) :
              /\ ~(IsWs(p[i]) /\ IsWs(p[i + 1]))
              /\ ~(IsNumber(p[i]) /\ IsNumber(p[i + 1]))}

\* the values of the documents of one way of reading a chunk
DocValues(p) ==
    LET docs == SelectSeq(p, LAMBDA t : t \in JsonDocs)
    IN  [i \in 1..Len(docs) |-> Ok(Canon(docs[i]))]

RECURSIVE ExpectedJson(_)
\* the values of every chunk's documents, chunk after chunk
ExpectedJson(w) ==
    IF Len(w) = 0 THEN <<>>
    ELSE DocValues(CHOOSE p \in DocDecomps(Head(w).val) : TRUE) \o ExpectedJson(Tail(w))

AllChunksOk(w) == \A i \in 1..Len(w) : w[i].ok

BodyText(w) == Concat([i \in 1..Len(w) |-> w[i].val])

RECURSIVE CompleteLines(_)
\* the newline-terminated lines of a text, without their newlines
CompleteLines(t) ==
    IF \A i \in 1..Len(t) : t[i] # NL THEN <<>>
    ELSE LET k == CHOOSE k \in 1..Len(t) : t[k] = NL /\ \A j \in 1..(k - 1) : t[j] # NL
         IN  <<SubSeq(t, 1, k - 1)>> \o CompleteLines(SubSeq(t, k + 1, Len(t)))

NewlineTerminated(t) == Len(t) = 0 \/ t[Len(t)] = NL

HasDecodeError(items) ==
    \E i \in 1..Len(items) : ~items[i].ok /\ items[i].err.kind = "SerdeJsonError"

HasError(items) == \E i \in 1..Len(items) : ~items[i].ok

HasChunkStreamError(items) ==
    \E i \in 1..Len(items) :
        ~items[i].ok /\ items[i].err.kind = "IO" /\ items[i].err.iokind = "Other"

ValueAfterDecodeError(items) ==
    \E i, j \in 1..Len(items) :
        i < j /\ ~items[i].ok /\ items[i].err.kind = "SerdeJsonError" /\ items[j].ok

-----------------------------------------------------------------------------
(* Claims about the JSON-value stream, checked under SpecJsonStream.       *)

C3_Pre ==
    /\ AllChunksOk(wire0)
    /\ \A i \in 1..Len(wire0) : DocDecomps(wire0[i].val) # {}

-----------------------------------------------------------------------------
(* Claims about the event line stream, checked under SpecEvents.           *)

C4_Pre ==
    /\ AllChunksOk(wire0)
    /\ NewlineTerminated(BodyText(wire0))
    /\ \A i \in 1..Len(CompleteLines(BodyText(wire0))) :
          CompleteLines(BodyText(wire0))[i] \in JsonDocs

\* the values of the lines of a text
ExpectedLines(t) ==
    [i \in 1..Len(CompleteLines(t)) |-> Ok(Canon(CompleteLines(t)[i]))]

\* C4: for a body of newline-terminated JSON lines the event stream emits
\* one value per line, in line order.  The expected sequence is computed
\* from the concatenated body alone, so it is the same for every way of
\* splitting the body into chunks.
C4_LinesIndependentOfChunks ==
    C4_Pre =>
        /\ IsPrefix(emitted, ExpectedLines(BodyText(wire0)))
        /\ (done => emitted = ExpectedLines(BodyText(wire0)))

\* two lines have been emitted from a body whose second line was split
\* across two chunks
C4_Witness ==
    /\ C4_Pre
    /\ done
    /\ Len(emitted) = 2
    /\ Len(wire0) = 2
    /\ wire0[1].val = <<"1", NL, "1">>
    /\ wire0[2].val = <<NL>>

\* the items of the complete lines of a text, decoded or not
LineItems(t) ==
    [i \in 1..Len(CompleteLines(t)) |-> FromStr(Append(CompleteLines(t)[i], NL))]

IsFaultStream(w) == Len(w) = 1 /\ ~w[1].ok /\ w[1].err.kind = "Fault"

\* C6, as stated: a non-2xx answer reaches the consumer of the event stream
\* as the API error carrying the status and the body.
C6_SurfacesApiError ==
    IsFaultStream(wire0) /\ Len(emitted) > 0 => emitted[1] = wire0[1]

\* C6, amended: a non-2xx answer reaches the consumer of the event stream
\* as an I/O error of kind Other whose source is the API error carrying the
\* status and the body; it is the only item of the stream.
C6_SurfacesWrappedApiError ==
    IsFaultStream(wire0) =>
        /\ emitted \in {<<>>, <<Err(IOErrorOther(wire0[1].err))>>}
        /\ (done => emitted # <<>>)

\* the stream of a 404 answer has delivered its error and ended
C6_Witness ==
    /\ IsFaultStream(wire0)
    /\ wire0[1].err.code = 404
    /\ wire0[1].err.message = "not found"
    /\ Len(emitted) = 1
    /\ done

-----------------------------------------------------------------------------
(* Claims about construction, checked under SpecConstruct and SpecTls.     *)

IsUnixTarget(t) == Len(t) >= 2 /\ t[1] = "unix" /\ t[2] = "://"
IsNetworkTarget(t) == Len(t) >= 2 /\ t[1] \in {"http", "https"} /\ t[2] = "://"

\* C1: in a build with Unix-socket and TLS support, Docker::new and
\* Docker::host produce, for a unix target, the Unix variant whose path is
\* the path of the URL, and for a network target EncryptedTcp when
\* DOCKER_CERT_PATH is set and plain Tcp otherwise.
C1_TransportSelection ==
    (/\ docker.via \in {"new", "host"}
     /\ features.unix_socket
     /\ features.tls # "none") =>
        /\ IsUnixTarget(docker.target) =>
              /\ docker.kind = "ok"
              /\ docker.variant = "Unix"
              /\ docker.addr = <<docker.target[Len(docker.target)]>>
        /\ IsNetworkTarget(docker.target) =>
              /\ docker.kind = "ok"
              /\ docker.variant = IF docker.cert_path_set THEN "EncryptedTcp" ELSE "Tcp"

\* C8: constructing the encrypted transport from a directory in which
\* key.pem (or cert.pem) alone is missing ends in an error value: it
\* neither panics nor yields a transport.
C8_MissingKeyIsErrorValue ==
    (/\ docker.via = "tcp_https"
     /\ fs.ca.exists
     /\ \/ ~fs.key.exists /\ fs.cert.exists
        \/ fs.key.exists /\ ~fs.cert.exists) => docker.kind = "error"

PrivateKeyCount(f) == Len(SelectSeq(f.items, LAMBDA k : k \in PrivateKeyKinds))

\* C9: the rust-tls loader rejects a key.pem that holds no private key or
\* more than one: no transport is built from it.
C9_ExactlyOnePrivateKey ==
    (/\ docker.via = "tcp_https"
     /\ features.tls = "rust-tls"
     /\ fs.key.exists
     /\ PrivateKeyCount(fs.key) # 1) => docker.kind # "ok"

\* C10: a key.pem whose private key is an elliptic-curve key is rejected
\* with a decode error value; nothing else of the directory is at fault.
C10_EcKeyIsDecodeError ==
    (/\ docker.via = "tcp_https"
     /\ features.tls = "rust-tls"
     /\ fs.key = PemFile(<<"ECKey">>)
     /\ fs.cert.exists
     /\ fs.ca.exists) => docker.kind = "error"

\* the number of certificates a file of the directory holds
CertCount(f) == Len(SelectSeq(f.items, LAMBDA k : k = "X509Certificate"))

\* C11: with cert.pem and key.pem in order, ca.pem is read exactly when
\* DOCKER_TLS_VERIFY is set: unset, the transport is built with an empty
\* trust root even if ca.pem is missing; set, the trust root holds every
\* certificate of ca.pem.
C11_CaReadIffVerify ==
    (/\ docker.via = "tcp_https"
     /\ fs.cert = PemFile(<<"X509Certificate">>)
     /\ fs.key = PemFile(<<"PKCS8Key">>)) =>
        /\ ~docker.tls_verify_set =>
              /\ docker.kind = "ok"
              /\ docker.tls.roots = <<>>
        /\ (docker.tls_verify_set /\ fs.ca.exists) =>
              /\ docker.kind = "ok"
              /\ Len(docker.tls.roots) = CertCount(fs.ca)

\* C12: every transport of the Unix variant keeps no idle pooled
\* connection, whichever constructor built it.
C12_UnixKeepsNoIdleConnection ==
    (docker.kind = "ok" /\ docker.variant = "Unix") => docker.pool_max_idle_per_host = "0"

\* the host string of a network target, read off the address itself
ExpectedHostStr(t) ==
    <<t[1], "://", t[3], ":", IF Len(t) >= 5 /\ t[4] = ":" THEN t[5] ELSE "80">>

\* C13: the host string stored for a network target is scheme://host:port
\* with the target's port, or 80 when it has none, for every scheme; a
\* target already written that way is stored unchanged.
C13_HostStringIsCanonical ==
    (/\ docker.via \in {"new", "host"}
     /\ docker.kind = "ok"
     /\ IsNetworkTarget(docker.target)) =>
        /\ docker.variant \in {"Tcp", "EncryptedTcp"}
        /\ docker.addr = ExpectedHostStr(docker.target)
        /\ (Len(docker.target) = 5 => docker.addr = docker.target)

\* an https target without a port has been stored with port 80, over TLS
C13_Witness ==
    /\ docker.kind = "ok"
    /\ docker.target = <<"https", "://", "example">>
    /\ docker.variant = "EncryptedTcp"
    /\ docker.addr = <<"https", "://", "example", ":", "80">>

\* an address that is no URL, or a URL without a scheme, or a network URL
\* without a host
IsMalformedTarget(t) ==
    /\ ~IsUnixTarget(t)
    /\ ~(/\ IsNetworkTarget(t)
         /\ Len(t) >= 3
         /\ t[3] \in Hosts)

\* C14: a malformed address never yields a Docker: the construction
\* panics, whichever constructor was given it, and no transport is built.
C14_MalformedTargetIsFatal ==
    (docker.via \in {"new", "host"} /\ IsMalformedTarget(docker.target)) =>
        /\ docker.kind = "panic"
        /\ docker.variant = ""
        /\ docker.addr = <<>>

\* Docker::new has panicked on a DOCKER_HOST that is no URL
C14_Witness ==
    /\ docker.via = "new"
    /\ docker.target = <<"not a url">>
    /\ docker.kind = "panic"
    /\ docker.msg = "invalid url"

-----------------------------------------------------------------------------
(* Claims about the one-shot helpers, checked under SpecOneShot.           *)

JsonHelpers == {"get_json", "post_json", "post_json_headers", "delete_json"}

\* a body that is one document, whitespace allowed around it
IsOneDocument(body) ==
    \E p \in DocDecomps(body) : Len(SelectSeq(p, LAMBDA t : t \in JsonDocs)) = 1

\* C7: a JSON-returning helper decodes the body only after the request
\* succeeded; a failed request's error (API or transport) is returned
\* unchanged and undecoded; a parse error is returned only for a successful
\* request whose body is not one valid document.
C7_DecodeOnlyAfterSuccess ==
    (calls > 0 /\ last.helper \in JsonHelpers) =>
        /\ last.resp.kind = "status" =>
              /\ last.result = Err(Fault(last.resp.status, last.resp.message))
              /\ ~last.decoded
        /\ last.resp.kind = "network" =>
              /\ last.result = Err(HyperError)
              /\ ~last.decoded
        /\ last.resp.kind = "success" =>
              /\ last.decoded
              /\ IF IsOneDocument(last.resp.body)
                 THEN last.result = Ok(Canon(last.resp.body))
                 ELSE ~last.result.ok /\ last.result.err.kind = "SerdeJsonError"

\* post_json_headers has returned the API error of a 404 answer
C7_Witness ==
    /\ last.helper = "post_json_headers"
    /\ last.resp.kind = "status"
    /\ last.resp.status = 404
    /\ last.result = Err(Fault(404, "not found"))

-----------------------------------------------------------------------------
(* Further claims about the streams, checked under SpecJsonStream and      *)
(* SpecStreams.                                                            *)

\* what one item of the chunk stream becomes when it is decoded alone
ChunkItems(c) == IF c.ok THEN StreamDeserializerCollect(c.val, 1) ELSE <<c>>

RECURSIVE ItemsPerChunk(_)
\* every item of the chunk stream decoded alone, chunk after chunk
ItemsPerChunk(w) ==
    IF Len(w) = 0 THEN <<>> ELSE ChunkItems(Head(w)) \o ItemsPerChunk(Tail(w))

\* the number of items the first k chunks yield when each is decoded alone
ItemsUpTo(w, k) == Len(ItemsPerChunk(SubSeq(w, 1, k)))

HasNonWs(t) == \E i \in 1..Len(t) : t[i] # NL

\* chunks i and i + 1 hold, together, one document cut inside
SplitDocument(w, i) ==
    /\ i < Len(w)
    /\ w[i].ok /\ w[i + 1].ok
    /\ HasNonWs(w[i].val) /\ HasNonWs(w[i + 1].val)
    /\ IsOneDocument(w[i].val \o w[i + 1].val)

Polls == Len(emitted) + IF done THEN 1 ELSE 0

\* the number of items the stream can deliver from the first k chunks alone
Deliverable(k) ==
    IF stream = "events"
    THEN Len(CompleteLines(BodyText(SubSeq(wire0, 1, k))))
    ELSE ItemsUpTo(wire0, k)

\* the bytes pulled that no line has taken yet: the buffer and what is left
\* to read of the current chunk
PulledBytes ==
    buffer \o SubSeq(reader.chunk, reader.chunk_start + 1, Len(reader.chunk))

\* an item can be delivered without a pull
ItemReady ==
    IF stream = "events"
    THEN \E i \in 1..Len(PulledBytes) : PulledBytes[i] = NL
    ELSE inner.some /\ Len(inner.items) > 0

\* C16: both streams are consumer-driven.  Before the first poll nothing is
\* pulled; the chunks not pulled stay in the chunk stream; the last chunk
\* pulled was needed to serve the polls made so far; and a poll pulls a
\* chunk only when nothing deliverable is left from the chunks pulled before.
C16_ConsumerDriven ==
    /\ [](/\ (Polls = 0 => pulled = 0)
          /\ wire = SubSeq(wire0, pulled + 1, Len(wire0))
          /\ (pulled >= 1 => Deliverable(pulled - 1) < Polls))
    /\ [][pulled' # pulled => ~ItemReady /\ Polls' = Polls + 1]_vars

\* two polls were served from the first chunk and the second chunk is
\* still in the chunk stream
C16_Witness ==
    /\ stream = "stream_post_into"
    /\ Len(wire0) = 2
    /\ wire0[1] = Ok(<<"[", "]", "1">>)
    /\ Len(emitted) = 2
    /\ pulled = 1
    /\ wire = <<wire0[2]>>

\* the longest beginning of a chunk that is complete documents
GoodPrefixLen(c) ==
    LET good == {k \in 1..Len(c) : DocDecomps(SubSeq(c, 1, k)) # {}}
    IN  IF good = {} THEN 0 ELSE CHOOSE k \in good : \A j \in good : j <= k

\* the values of the documents of the first k bytes of a chunk
GoodValues(c, k) ==
    IF k = 0 THEN <<>>
    ELSE DocValues(CHOOSE p \in DocDecomps(SubSeq(c, 1, k)) : TRUE)

\* the bytes of a chunk after its first k
BadBytes(c, k) == SubSeq(c, k + 1, Len(c))

\* the document that ends at byte k is a number and the byte after it can
\* neither continue nor end it
NumberRunsIntoBadByte(c, k) ==
    /\ k > 0
    /\ k < Len(c)
    /\ c[k] = "1"
    /\ c[k + 1] = "x"

\* an item with its error reduced to "a decode error"
ItemShape(r) == IF r.ok THEN r ELSE [ok |-> FALSE, err |-> r.err.kind]
DecodeErrorShape == [ok |-> FALSE, err |-> "SerdeJsonError"]

\* the documents of a chunk's good beginning, then one decode error if bad
\* bytes follow
ValuesThenOneError(c) ==
    LET k == GoodPrefixLen(c)
    IN  GoodValues(c, k) \o (IF HasNonWs(BadBytes(c, k)) THEN <<DecodeErrorShape>> ELSE <<>>)

\* the same, but a number that runs into a bad byte is lost: a
\* trailing-characters error takes its place and the bad bytes give their own
ValuesThenErrors(c) ==
    LET k == GoodPrefixLen(c)
        values == GoodValues(c, k)
    IN  IF NumberRunsIntoBadByte(c, k)
        THEN SubSeq(values, 1, Len(values) - 1) \o <<DecodeErrorShape, DecodeErrorShape>>
        ELSE values \o (IF HasNonWs(BadBytes(c, k)) THEN <<DecodeErrorShape>> ELSE <<>>)

RECURSIVE ExpectedShapes(_, _)
ExpectedShapes(w, strict) ==
    IF Len(w) = 0 THEN <<>>
    ELSE (IF strict THEN ValuesThenOneError(Head(w).val) ELSE ValuesThenErrors(Head(w).val))
         \o ExpectedShapes(Tail(w), strict)

EmittedShapes == [i \in 1..Len(emitted) |-> ItemShape(emitted[i])]

-----------------------------------------------------------------------------
(* Further claims about the helpers and the instance, checked under        *)
(* SpecOneShot, SpecConstruct and SpecLife.                                *)

\* C17: every call of a one-shot helper issues exactly one request,
\* whatever its outcome; a failed request's error is what the helper
\* returns, with no second request and no partial result.
C17_OneRequestPerCall ==
    /\ [](requests = calls)
    /\ [][calls' # calls =>
            /\ calls' = calls + 1
            /\ requests' = requests + 1
            /\ (last'.resp.kind = "status" =>
                   last'.result = Err(Fault(last'.resp.status, last'.resp.message)))
            /\ (last'.resp.kind = "network" => last'.result = Err(HyperError))]_vars

\* two calls were made, the second a put that met a network failure
C17_Witness ==
    /\ calls = 2
    /\ requests = 2
    /\ last.helper = "put"
    /\ last.resp.kind = "network"
    /\ last.result = Err(HyperError)

\* C18: with DOCKER_HOST unset, Docker::new yields the Unix variant on
\* /var/run/docker.sock (in a build with Unix-socket support).
C18_DefaultIsUnixSocket ==
    (/\ docker.via = "new"
     /\ docker.target = DefaultHost
     /\ features.unix_socket) =>
        /\ docker.kind = "ok"
        /\ docker.variant = "Unix"
        /\ docker.addr = <<"/var/run/docker.sock">>

\* C19: once built, a Docker keeps its transport: no request, no clone and
\* no change of the environment changes its variant or its host or path,
\* and a clone has the variant and the host or path of its original.
C19_TransportFixedAtConstruction ==
    /\ [][docker.kind = "ok" => docker' = docker]_vars
    /\ [](copy # NoDocker =>
            /\ copy.kind = "ok"
            /\ copy.variant = docker.variant
            /\ copy.addr = docker.addr)

\* an encrypted transport was built, then the environment was pointed at a
\* socket without certificates, then the instance was cloned and used
C19_Witness ==
    /\ docker.variant = "EncryptedTcp"
    /\ docker.addr = <<"http", "://", "localhost", ":", "8000">>
    /\ env.DOCKER_CERT_PATH = Unset
    /\ env.DOCKER_HOST = <<"unix", "://", "localhost", "/x.sock">>
    /\ copy = docker
    /\ calls = 1

-----------------------------------------------------------------------------
(* Claims about EventsOptionsBuilder, checked under SpecOptions.           *)

\* the strings of the filters of one key among the filters given, in order
GivenOf(filters, key) ==
    LET mine == SelectSeq(filters, LAMBDA f : FilterKey(f) = key)
    IN  [i \in 1..Len(mine) |-> FilterString(mine[i])]

GivenKeys(filters) == {FilterKey(filters[i]) : i \in 1..Len(filters)}

\* C21: the filters parameter of the options built after any calls of
\* filter holds every kind given in any of those calls, each with all its
\* values in the order they were given.
C21_FiltersAccumulate ==
    (options.built /\ options.given # <<>>) =>
        /\ "filters" \in DOMAIN options.params
        /\ \A key \in GivenKeys(options.given) :
              /\ key \in DOMAIN options.params["filters"].members
              /\ options.params["filters"].members[key] = GivenOf(options.given, key)

\* since and until are left as they are by filter
FilterKeepsSinceUntil ==
    [][given' # given =>
          \A k \in {"since", "until"} :
              /\ (k \in DOMAIN builder.params) = (k \in DOMAIN builder'.params)
              /\ (k \in DOMAIN builder.params => builder'.params[k] = builder.params[k])]_vars

\* within one kind the values of every call are kept, in order
ValuesOfPresentKindsAccumulate ==
    (options.built /\ "filters" \in DOMAIN options.params) =>
        \A key \in DOMAIN options.params["filters"].members :
            options.params["filters"].members[key] = GivenOf(options.given, key)

=============================================================================
